---- MODULE Spec2Model ----
(***************************************************************************)
(* A model of EnergyLeveller.py: the line-oriented input parser            *)
(* (ReadInput), the Diagram class (AddState, MakeLeftRightPoints, Draw)    *)
(* and the driver main().                                                  *)
(*                                                                         *)
(* Text is modelled as TLA+ strings, handled character by character with   *)
(* Len, SubSeq and \o, so that strip/split/upper and the numeric parsers   *)
(* do what the Python operations do.  Real numbers are fixed-point         *)
(* integers counting hundredths (1.5 is 150): every literal of the inputs  *)
(* used here has at most two decimals, and the arithmetic of the program   *)
(* on them (sums, differences, halving an even multiple of 100, one        *)
(* hundredth of the axis top) is exact in that representation.             *)
(***************************************************************************)
EXTENDS Integers, Sequences, FiniteSets, TLC

(***************************************************************************)
(* Bounds of the model.                                                    *)
(***************************************************************************)
\* the number of state blocks the free part of an input may open
MaxStates == 2
\* the number of AddState calls a direct client of Diagram makes
MaxApiStates == 2

\* one unit (1.0) in hundredths: the fixed-point scale of the model
Unit == 100

\* Python's None, and a present value, for the optional fields
None == <<>>
Some(v) == <<v>>

(***************************************************************************)
(* Python's str operations.                                                *)
(***************************************************************************)
Ch(s, i) == SubSeq(s, i, i)

Lower == <<"a","b","c","d","e","f","g","h","i","j","k","l","m",
           "n","o","p","q","r","s","t","u","v","w","x","y","z">>
Caps == <<"A","B","C","D","E","F","G","H","I","J","K","L","M",
           "N","O","P","Q","R","S","T","U","V","W","X","Y","Z">>

UpperCh(c) ==
    IF \E i \in 1..26 : Lower[i] = c
    THEN Caps[CHOOSE i \in 1..26 : Lower[i] = c]
    ELSE c

\* str.upper()
RECURSIVE Upper(_)
Upper(s) == IF s = "" THEN "" ELSE UpperCh(Ch(s, 1)) \o Upper(Tail(s))

IsSpace(c) == c \in {" ", "\t", "\n", "\r"}

\* str.lstrip()
RECURSIVE LStrip(_)
LStrip(s) == IF s # "" /\ IsSpace(Ch(s, 1)) THEN LStrip(Tail(s)) ELSE s

\* str.rstrip()
RECURSIVE RStrip(_)
RStrip(s) ==
    IF s # "" /\ IsSpace(Ch(s, Len(s)))
    THEN RStrip(SubSeq(s, 1, Len(s) - 1))
    ELSE s

\* str.strip()
Strip(s) == RStrip(LStrip(s))

\* the position of the first occurrence of the character c in s, 0 if none
RECURSIVE FindFrom(_, _, _)
FindFrom(s, c, i) ==
    IF i > Len(s) THEN 0
    ELSE IF Ch(s, i) = c THEN i
    ELSE FindFrom(s, c, i + 1)

\* str.split(c) for a one-character separator: a sequence of strings
RECURSIVE Split(_, _)
Split(s, c) ==
    LET i == FindFrom(s, c, 1)
    IN  IF i = 0 THEN <<s>>
        ELSE <<SubSeq(s, 1, i - 1)>> \o Split(SubSeq(s, i + 1, Len(s)), c)

\* sub in s
Contains(s, sub) ==
    \E i \in 1..(Len(s) - Len(sub) + 1) : SubSeq(s, i, i + Len(sub) - 1) = sub

\* str.endswith(suf)
EndsWith(s, suf) ==
    /\ Len(s) >= Len(suf)
    /\ SubSeq(s, Len(s) - Len(suf) + 1, Len(s)) = suf

Digits == <<"0","1","2","3","4","5","6","7","8","9">>
IsDigit(c) == \E i \in 1..10 : Digits[i] = c
DigitVal(c) == (CHOOSE i \in 1..10 : Digits[i] = c) - 1

AllDigits(s) == \A i \in 1..Len(s) : IsDigit(Ch(s, i))

\* the value of a non-empty string of digits
RECURSIVE DigitsVal(_)
DigitsVal(s) ==
    IF s = "" THEN 0
    ELSE 10 * DigitsVal(SubSeq(s, 1, Len(s) - 1)) + DigitVal(Ch(s, Len(s)))

\* the text without its sign, and the sign
Unsigned(t) == IF t # "" /\ Ch(t, 1) \in {"+", "-"} THEN Tail(t) ELSE t
SignOf(t) == IF t # "" /\ Ch(t, 1) = "-" THEN -1 ELSE 1

\* int(s): surrounding whitespace is dropped, then an optional sign and
\* digits; anything else raises ValueError (ok = FALSE)
ParseInt(s) ==
    LET t == Strip(s)
        u == Unsigned(t)
    IN  IF u # "" /\ AllDigits(u)
        THEN [ok |-> TRUE, val |-> SignOf(t) * DigitsVal(u)]
        ELSE [ok |-> FALSE, val |-> 0]

\* float("nan"): the value that is not a number.  No order relation holds
\* between it and a number; it stands apart from every number of the model.
NaN == -1000000000

\* a < b of two floats
FLt(a, b) == a # NaN /\ b # NaN /\ a < b

\* max(a, b) of two floats: b if b > a, else a
FMax(a, b) == IF FLt(a, b) THEN b ELSE a

\* float(s), in hundredths: surrounding whitespace is dropped, then an
\* optional sign and either "nan" in any case, or digits and an optional
\* fraction of at most two digits (the precision of the model); anything
\* else raises ValueError.  Exponents, infinities and longer fractions are
\* not among the literals of the inputs.
ParseFloat(s) ==
    LET t == Strip(s)
        u == Unsigned(t)
        parts == Split(u, ".")
        ip == parts[1]
        fp == IF Len(parts) = 2 THEN parts[2] ELSE ""
        frac == IF Len(fp) = 0 THEN 0
                ELSE IF Len(fp) = 1 THEN 10 * DigitsVal(fp)
                ELSE DigitsVal(fp)
    IN  IF Upper(u) = "NAN" THEN [ok |-> TRUE, val |-> NaN]
        ELSE IF /\ Len(parts) <= 2
           /\ AllDigits(ip) /\ AllDigits(fp)
           /\ Len(ip) + Len(fp) > 0
           /\ Len(fp) <= 2
        THEN [ok |-> TRUE, val |-> SignOf(t) * (Unit * DigitsVal(ip) + frac)]
        ELSE [ok |-> FALSE, val |-> 0]


(***************************************************************************)
(* class State.                                                            *)
(***************************************************************************)
\* State.__init__: a fresh, default-initialised State
NewState ==
    [ name |-> "", color |-> "k", labelColor |-> "k", linksTo |-> "",
      label |-> "", legend |-> None, _energy |-> 0, energy_shift |-> 0,
      normalisedPosition |-> 0, column |-> 1,
      leftPointx |-> 0, leftPointy |-> 0, rightPointx |-> 0, rightPointy |-> 0,
      labelOffset |-> <<0, 0>>, textOffset |-> <<0, 0>>,
      imageOffset |-> <<0, 0>>, imageScale |-> Unit, image |-> None,
      show_energy |-> TRUE ]

\* the energy property: the stored energy plus the state's own shift
Energy(state) == state._energy + state.energy_shift

(***************************************************************************)
(* Exceptions and the results of the steps that may raise one.             *)
(***************************************************************************)
NoExc == [type |-> "", msg |-> ""]
Exc(t, m) == [type |-> t, msg |-> m]

\* the image files plt.imread can load, with their pixel shape
\* (rows, columns); every other path raises IOError
ImageShapes == [f \in {"mol.png"} |-> <<2, 4>>]
imread(path) ==
    IF path \in DOMAIN ImageShapes
    THEN Some([file |-> path, shape |-> ImageShapes[path]])
    ELSE None

(***************************************************************************)
(* ReadInput: the body of the loop over the lines of the input.            *)
(*                                                                         *)
(* L is the record of ReadInput's local variables.  A step returns the new *)
(* locals, the messages it printed, the exception it raised (NoExc if      *)
(* none) and the font size it stored in plt.rcParams (None if it did not). *)
(* The line counter lc only feeds the text of the messages and is left     *)
(* out, with the line numbers of the messages.                             *)
(***************************************************************************)
Ok(L) == [loc |-> L, out |-> <<>>, exc |-> NoExc, font |-> None]
Warn(L, m) == [loc |-> L, out |-> <<m>>, exc |-> NoExc, font |-> None]
Raise(L, out, e) == [loc |-> L, out |-> out, exc |-> e, font |-> None]

\* statesList[-1].f = v
SetLast(L, f, v) ==
    [L EXCEPT !.statesList[Len(L.statesList)] = [@ EXCEPT ![f] = v]]

\* raw[1] does not exist: the line holds no "="
IndexErr(L) == Raise(L, <<>>, Exc("IndexError", "list index out of range"))

\* tx = float(raw[1][0]); ty = float(raw[1][1]); statesList[-1].f = (tx, ty)
\* with ValueError caught and reported as message m
SetOffset(L, f, value, m) ==
    LET comps == Split(value, ",")
        tx == ParseFloat(comps[1])
        ty == ParseFloat(comps[2])
    IN  IF ~tx.ok THEN Warn(L, m)
        ELSE IF Len(comps) < 2 THEN IndexErr(L)
        ELSE IF ~ty.ok THEN Warn(L, m)
        ELSE Ok(SetLast(L, f, <<tx.val, ty.val>>))

\* the label: the parts after the key, joined again with " = "
RECURSIVE JoinLabel(_, _)
JoinLabel(raw, i) ==
    IF i > Len(raw) THEN ""
    ELSE raw[i] \o (IF i < Len(raw) THEN " = " ELSE "") \o JoinLabel(raw, i + 1)

\* (mutant) the column stored as it is written in the input
ColumnIndex_AsWritten(k) == k

\* the column stored for COLUMN = k: int(raw[1]) - 1
ColumnIndex(k) == k - 1

\* a line of a state block that is neither "{" nor "}"
BlockAttribute(L, line) ==
    LET parts == Split(line, "=")
        n == Len(parts)
        key == Strip(Upper(parts[1]))
        \* raw after raw[0] and raw[1] have been replaced by their stripped forms
        raw == [i \in 1..n |-> IF i = 1 THEN key
                               ELSE IF i = 2 THEN Strip(parts[2])
                               ELSE parts[i]]
        last == raw[n]
    IN  IF key = "NAME" THEN
            IF n < 2 THEN IndexErr(L) ELSE Ok(SetLast(L, "name", Upper(raw[2])))
        ELSE IF key \in {"TEXTCOLOR", "TEXTCOLOUR", "TEXT-COLOUR", "TEXT-COLOR",
                         "TEXT COLOUR", "TEXT COLOR"} THEN
            IF n < 2 THEN IndexErr(L) ELSE Ok(SetLast(L, "color", raw[2]))
        ELSE IF key = "LABEL" THEN
            Ok(SetLast(L, "label", JoinLabel(raw, 2)))
        ELSE IF key \in {"LABELCOLOR", "LABELCOLOUR"} THEN
            IF n < 2 THEN IndexErr(L) ELSE Ok(SetLast(L, "labelColor", raw[2]))
        ELSE IF key \in {"LINKSTO", "LINKS TO"} THEN
            IF n < 2 THEN IndexErr(L) ELSE Ok(SetLast(L, "linksTo", Upper(raw[2])))
        ELSE IF key = "COLUMN" THEN
            IF n < 2 THEN IndexErr(L)
            ELSE IF ParseInt(raw[2]).ok
                 THEN Ok(SetLast(L, "column", ColumnIndex(ParseInt(raw[2]).val)))
                 ELSE Warn(L, "ERROR: Could not read integer for column number")
        ELSE IF key = "ENERGY" THEN
            IF ParseFloat(last).ok
            THEN Ok(SetLast(L, "_energy", ParseFloat(last).val))
            ELSE Warn(L, "ERROR: Could not read real number for energy")
        ELSE IF key = "ENERGY SHIFT" THEN
            IF ParseFloat(last).ok
            THEN Ok(SetLast(L, "energy_shift", ParseFloat(last).val))
            ELSE Warn(L, "ERROR: Could not read real number for energy")
        ELSE IF key \in {"LABELOFFSET", "LABEL OFFSET", "LABEL-OFFSET"} THEN
            IF n < 2 THEN IndexErr(L)
            ELSE SetOffset(L, "labelOffset", raw[2],
                           "ERROR: Could not read real number for label offset")
        ELSE IF key \in {"TEXTOFFSET", "TEXT OFFSET", "TEXT-OFFSET"} THEN
            IF n < 2 THEN IndexErr(L)
            ELSE SetOffset(L, "textOffset", raw[2],
                           "ERROR: Could not read real number for text offset")
        ELSE IF key = "LEGEND" THEN
            IF n < 2 THEN IndexErr(L) ELSE Ok(SetLast(L, "legend", Some(raw[2])))
        ELSE IF key = "IMAGE" THEN
            IF imread(last) # None
            THEN Ok(SetLast(L, "image", imread(last)))
            ELSE Raise(L, <<>>, Exc("IOError", "Failed to find image"))
        ELSE IF Contains(key, "IMAGE") /\ Contains(key, "OFFSET") THEN
            IF n < 2 THEN IndexErr(L)
            ELSE SetOffset(L, "imageOffset", raw[2],
                           "ERROR: Could not read real number for image offset")
        ELSE IF Contains(key, "IMAGE") /\ Contains(key, "SCALE") THEN
            IF n < 2 THEN IndexErr(L)
            ELSE IF ~ParseFloat(raw[2]).ok
                 THEN Warn(L, "ERROR: Could not read real number for image scale")
            ELSE LET scale == ParseFloat(raw[2]).val
                     tenth == Unit \div 10
                     L2 == SetLast(L, "imageScale", FMax(scale, tenth))
                 IN  IF FLt(scale, tenth)
                     THEN Warn(L2, "image scale cannot be < 0.1, setting to 0.1/")
                     ELSE Ok(L2)
        ELSE IF Contains(key, "HIDE") /\ Contains(key, "ENERGY") THEN
            Ok(SetLast(L, "show_energy", FALSE))
        ELSE Warn(L, "Ignoring unrecognised line")

\* (mutant) a "{" inside a block is reported and skipped
BlockLine_SkipBrace(L, line) ==
    IF Ch(line, 1) = "{" THEN
        Warn(L, "Unexpected opening '{' within state block")
    ELSE IF Ch(line, 1) = "}" THEN
        Ok([L EXCEPT !.stateBlock = FALSE])
    ELSE BlockAttribute(L, line)

\* a line read while stateBlock is set (line is stripped and not a comment)
BlockLine(L, line) ==
    IF Ch(line, 1) = "{" THEN
        Raise(L, <<"Unexpected opening '{' within state block">>,
              Exc("ValueError", "ERROR: Unexpected {"))
    ELSE IF Ch(line, 1) = "}" THEN
        Ok([L EXCEPT !.stateBlock = FALSE])
    ELSE BlockAttribute(L, line)

\* [float(l) for l in value.split(",")]: the list, or ok = FALSE when an
\* element raises ValueError
FloatList(value) ==
    LET comps == Split(value, ",")
    IN  IF \A i \in 1..Len(comps) : ParseFloat(comps[i]).ok
        THEN [ok |-> TRUE, val |-> [i \in 1..Len(comps) |-> ParseFloat(comps[i]).val]]
        ELSE [ok |-> FALSE, val |-> <<>>]

\* (mutant) the output name taken as it is written
OutputName_AsWritten(value) == value

\* the name stored for OUTPUT = value: value, with ".pdf" added unless
\* value ends with it
OutputName(value) ==
    IF ~EndsWith(value, ".pdf") THEN value \o ".pdf" ELSE value

\* READING GLOBAL OPTIONS: a line outside the blocks that is neither "{"
\* nor "}"
GlobalOption(L, line) ==
    LET parts == Split(line, "=")
        key == Strip(Upper(parts[1]))
        value == LStrip(Strip(parts[2]))
    IN  IF Len(parts) # 2 THEN Warn(L, "Ignoring unrecognised line")
        ELSE IF key = "GLOBAL-SHIFT" THEN
            IF ParseFloat(value).ok
            THEN Ok([L EXCEPT !.global_shift = ParseFloat(value).val])
            ELSE Raise(L, <<>>, Exc("ValueError", "could not convert string to float"))
        ELSE IF key = "WIDTH" THEN
            IF ParseInt(value).ok
            THEN Ok([L EXCEPT !.width = ParseInt(value).val])
            ELSE Warn(L, "ERROR: Could not read integer for diagram width")
        ELSE IF key = "HEIGHT" THEN
            IF ParseInt(value).ok
            THEN Ok([L EXCEPT !.height = ParseInt(value).val])
            ELSE Warn(L, "ERROR: Could not read integer for diagram height")
        ELSE IF key \in {"OUTPUT-FILE", "OUTPUT"} THEN
            IF ~EndsWith(LStrip(value), ".pdf")
            THEN Warn([L EXCEPT !.outName = Some(OutputName(LStrip(value)))],
                      "WARNING: Output will be .pdf. Adding this to output file.")
            ELSE Ok([L EXCEPT !.outName = Some(OutputName(LStrip(value)))])
        ELSE IF key \in {"ENERGY-UNITS", "ENERGYUNITS", "ENERGY UNITS"} THEN
            Ok([L EXCEPT !.energyUnits = value])
        ELSE IF key \in {"FONT-SIZE", "FONTSIZE", "FONT SIZE"} THEN
            IF ParseInt(value).ok
            THEN [Ok([L EXCEPT !.fontSize = ParseInt(value).val])
                    EXCEPT !.font = Some(ParseInt(value).val)]
            ELSE [Warn(L, "ERROR: Could not read integer for font size")
                    EXCEPT !.out = @ \o <<"Default will be used...">>]
        ELSE IF Contains(key, "ENERGY") /\ Contains(key, "RANGE") THEN
            IF ~FloatList(value).ok
            THEN [Warn(L, "ERROR: Could not read floats for energy range")
                    EXCEPT !.out = @ \o <<"e.g: ENERGY RANGE = -1, 2",
                                          "Automatic range will be used...">>]
            ELSE LET L2 == [L EXCEPT !.y_lims = Some(FloatList(value).val)]
                 IN  IF Len(FloatList(value).val) = 2 THEN Ok(L2)
                     ELSE Raise(L2, <<>>,
                                Exc("AssertionError",
                                    "Must have two comma separated numbers for range."))
        ELSE Warn(L, "WARNING: Skipping unknown line")

\* (mutant) only the empty lines are passed over
Skipped_BlankOnly(line) == ~(Len(line) > 0)

\* the line is passed over: it is empty or its first character is "#"
Skipped(line) == ~(Len(line) > 0 /\ Ch(Strip(line), 1) # "#")

\* one pass of the body of "for line in inp"
ReadLineStep(L, text) ==
    LET line == Strip(text)
    IN  IF Skipped(line) THEN Ok(L)
        ELSE IF L.stateBlock THEN BlockLine(L, line)
        ELSE IF Ch(Strip(line), 1) = "{" THEN
            Ok([L EXCEPT !.statesList = Append(@, NewState), !.stateBlock = TRUE])
        ELSE IF Ch(Strip(line), 1) = "}" THEN
            Warn(L, "WARNING: Not expecting closing }")
        ELSE GlobalOption(L, line)

\* the locals of ReadInput before the loop; outName is not assigned
\* there, so it starts unbound (None)
InitLocals ==
    [ stateBlock |-> FALSE, statesList |-> <<>>, width |-> 0, height |-> 0,
      global_shift |-> 0, fontSize |-> 8, energyUnits |-> "", y_lims |-> None,
      outName |-> None ]

(***************************************************************************)
(* class Diagram.                                                          *)
(***************************************************************************)
\* sorted() of a list of numbers
RECURSIVE Sorted(_)
Sorted(l) ==
    IF l = <<>> THEN <<>>
    ELSE LET i == CHOOSE i \in 1..Len(l) : \A j \in 1..Len(l) : l[i] <= l[j]
         IN  <<l[i]>> \o Sorted(SubSeq(l, 1, i - 1) \o SubSeq(l, i + 1, Len(l)))

\* Diagram.__init__.  statesList, a dict, is the sequence of its values in
\* insertion order; the key of a value is its name.  fontSize is not stored.
NewDiagram(width, height, fontSize, outputName, y_lims) ==
    [ width |-> width, height |-> height, y_lims |-> y_lims,
      sorted_y_lims |-> IF y_lims # None THEN Some(Sorted(y_lims[1])) ELSE None,
      outputName |-> outputName, statesList |-> <<>>, dashes |-> <<6, 3>>,
      columns |-> 0, energyUnits |-> "", do_legend |-> FALSE ]

\* key in self.statesList
HasKey(d, key) == \E i \in 1..Len(d.statesList) : d.statesList[i].name = key

\* self.statesList[key]
Lookup(d, key) ==
    d.statesList[CHOOSE i \in 1..Len(d.statesList) : d.statesList[i].name = key]

\* (mutant) AddState that registers the name as given
AddState_NoUpper(d, state) ==
    LET d1 == IF state.legend # None THEN [d EXCEPT !.do_legend = TRUE] ELSE d
    IN  IF ~HasKey(d1, state.name)
        THEN [d |-> [d1 EXCEPT !.statesList = Append(@, state)],
              out |-> <<>>, exc |-> NoExc]
        ELSE [d |-> d1,
              out |-> <<"ERROR: States must have unique names.">>,
              exc |-> Exc("ValueError", "Non unique state names.")]

\* Diagram.AddState: the diagram after the call, what it printed and the
\* exception it raised
AddState(d, state) ==
    LET st == [state EXCEPT !.name = Upper(@), !.linksTo = Upper(@)]
        d1 == IF st.legend # None THEN [d EXCEPT !.do_legend = TRUE] ELSE d
    IN  IF ~HasKey(d1, st.name)
        THEN [d |-> [d1 EXCEPT !.statesList = Append(@, st)],
              out |-> <<>>, exc |-> NoExc]
        ELSE [d |-> d1,
              out |-> <<"ERROR: States must have unique names.">>,
              exc |-> Exc("ValueError", "Non unique state names.")]

\* (mutant) the layout that spaces the columns by their width alone
PointsOf_NoGap(state) ==
    LET columnWidth == Unit
        leftx == state.column * columnWidth
    IN  [state EXCEPT !.leftPointx = leftx,
                      !.leftPointy = Energy(state),
                      !.rightPointx = leftx + columnWidth,
                      !.rightPointy = Energy(state)]

\* (mutant) the layout that folds the energy shift into the energy
PointsOf_FoldShift(state) ==
    LET columnWidth == Unit
        leftx == state.column * columnWidth + (state.column * columnWidth) \div 2
    IN  [state EXCEPT !.leftPointx = leftx,
                      !.leftPointy = Energy(state),
                      !.rightPointx = leftx + columnWidth,
                      !.rightPointy = Energy(state),
                      !._energy = Energy(state),
                      !.energy_shift = 0]

\* Diagram.MakeLeftRightPoints, for one state
PointsOf(state) ==
    LET columnWidth == Unit
        leftx == state.column * columnWidth + (state.column * columnWidth) \div 2
    IN  [state EXCEPT !.leftPointx = leftx,
                      !.leftPointy = Energy(state),
                      !.rightPointx = leftx + columnWidth,
                      !.rightPointy = Energy(state)]

\* Diagram.MakeLeftRightPoints
MakeLeftRightPoints(d) ==
    [d EXCEPT !.statesList = [i \in 1..Len(d.statesList) |-> PointsOf(d.statesList[i])]]

(***************************************************************************)
(* ReadInput after the loop: the checks of the mandatory settings, the     *)
(* construction of the Diagram and the registration of the states.         *)
(***************************************************************************)
\* (mutant) the loop that registers the states with their energy as parsed
RECURSIVE AddStates_NoShift(_, _, _, _, _)
AddStates_NoShift(d, statesList, i, global_shift, maxColumn) ==
    IF i > Len(statesList)
    THEN [d |-> [d EXCEPT !.columns = maxColumn + 1], out |-> <<>>, exc |-> NoExc]
    ELSE LET state == statesList[i]
             r == AddState(d, state)
         IN  IF r.exc # NoExc THEN r
             ELSE AddStates_NoShift(r.d, statesList, i + 1, global_shift,
                                    IF state.column > maxColumn THEN state.column
                                    ELSE maxColumn)

\* the loop "for state in statesList" from its i-th state on, with the
\* running maxColumn; it stops at the first AddState that raises
RECURSIVE AddStates(_, _, _, _, _)
AddStates(d, statesList, i, global_shift, maxColumn) ==
    IF i > Len(statesList)
    THEN [d |-> [d EXCEPT !.columns = maxColumn + 1], out |-> <<>>, exc |-> NoExc]
    ELSE LET state == [statesList[i] EXCEPT !._energy = @ - global_shift]
             r == AddState(d, state)
         IN  IF r.exc # NoExc THEN r
             ELSE AddStates(r.d, statesList, i + 1, global_shift,
                            IF state.column > maxColumn THEN state.column
                            ELSE maxColumn)

\* (mutant) the end of the input that drops a state whose block is open
FinishInput_DropOpen(L) ==
    LET w == IF L.stateBlock THEN <<"WARNING: Final closing '}' is missing.">>
             ELSE <<>>
        kept == IF L.stateBlock
                THEN SubSeq(L.statesList, 1, Len(L.statesList) - 1)
                ELSE L.statesList
    IN  IF L.height = 0 THEN
            [d |-> None, out |-> w \o <<"ERROR: Image height not set!">>,
             exc |-> Exc("ValueError", "Height not set")]
        ELSE IF L.width = 0 THEN
            [d |-> None, out |-> w \o <<"ERROR: Image width not set!">>,
             exc |-> Exc("ValueError", "Width not set")]
        ELSE IF L.outName = None THEN
            [d |-> None, out |-> w,
             exc |-> Exc("UnboundLocalError",
                         "local variable 'outName' referenced before assignment")]
        ELSE LET d0 == [NewDiagram(L.width, L.height, L.fontSize, L.outName[1],
                                   L.y_lims)
                          EXCEPT !.energyUnits = L.energyUnits]
                 r == AddStates(d0, kept, 1, L.global_shift, 0)
             IN  [d |-> IF r.exc = NoExc THEN Some(r.d) ELSE None,
                  out |-> w \o r.out, exc |-> r.exc]

\* lines 486-508: the Diagram returned (None if an exception was raised),
\* the messages printed and the exception
FinishInput(L) ==
    LET w == IF L.stateBlock THEN <<"WARNING: Final closing '}' is missing.">>
             ELSE <<>>
    IN  IF L.height = 0 THEN
            [d |-> None, out |-> w \o <<"ERROR: Image height not set!">>,
             exc |-> Exc("ValueError", "Height not set")]
        ELSE IF L.width = 0 THEN
            [d |-> None, out |-> w \o <<"ERROR: Image width not set!">>,
             exc |-> Exc("ValueError", "Width not set")]
        ELSE IF L.outName = None THEN
            [d |-> None, out |-> w,
             exc |-> Exc("UnboundLocalError",
                         "local variable 'outName' referenced before assignment")]
        ELSE IF L.outName[1] = "" THEN
            [d |-> None, out |-> w \o <<"ERROR: output file name not set!">>,
             exc |-> Exc("ValueError", "Output name not set")]
        ELSE LET d0 == [NewDiagram(L.width, L.height, L.fontSize, L.outName[1],
                                   L.y_lims)
                          EXCEPT !.energyUnits = L.energyUnits]
                 r == AddStates(d0, L.statesList, 1, L.global_shift, 0)
             IN  [d |-> IF r.exc = NoExc THEN Some(r.d) ELSE None,
                  out |-> w \o r.out, exc |-> r.exc]

(***************************************************************************)
(* Diagram.Draw.                                                           *)
(*                                                                         *)
(* The canvas (self.fig, self.ax) is the record of the calls made on it.   *)
(* The limits the axes report (get_xlim, get_ylim) are chosen by the       *)
(* plotting library: a view is one such choice.                            *)
(***************************************************************************)
\* exact fractions <<numerator, denominator>>, for the image placement
RECURSIVE Gcd(_, _)
Gcd(a, b) == IF b = 0 THEN a ELSE Gcd(b, a % b)
Abs(a) == IF a < 0 THEN -a ELSE a
Rat(n, d) ==
    LET g == Gcd(Abs(n), Abs(d))
        sg == IF d < 0 THEN -1 ELSE 1
    IN  <<sg * (n \div g), sg * (d \div g)>>
RInt(a) == <<a, 1>>
RAdd(p, q) == Rat(p[1] * q[2] + q[1] * p[2], p[2] * q[2])
RSub(p, q) == Rat(p[1] * q[2] - q[1] * p[2], p[2] * q[2])
RMul(p, q) == Rat(p[1] * q[1], p[2] * q[2])
RDiv(p, q) == Rat(p[1] * q[2], p[2] * q[1])

\* str(n) for a natural number
RECURSIVE NatStr(_)
NatStr(n) == IF n < 10 THEN Digits[n + 1] ELSE NatStr(n \div 10) \o Digits[(n % 10) + 1]

RECURSIVE PadLeft(_, _)
PadLeft(s, width) == IF Len(s) >= width THEN s ELSE PadLeft(" " \o s, width)

\* f"  {energy:6.3f}" of an energy given in hundredths
FormatEnergy(v) ==
    LET a == Abs(v)
        body == (IF v < 0 THEN "-" ELSE "") \o NatStr(a \div Unit) \o "."
                \o Digits[((a % Unit) \div 10) + 1] \o Digits[(a % 10) + 1] \o "0"
    IN  "  " \o PadLeft(body, 6)

EmptyAxes ==
    [ hlines |-> <<>>, lines |-> <<>>, annotations |-> <<>>, images |-> <<>>,
      ylabel |-> None, ylim |-> None, xticks |-> None, legend |-> FALSE ]

\* (mutant) the test of the limits in the order they were given
InLimits_AsGiven(d, y_point) ==
    \/ d.y_lims = None
    \/ /\ d.y_lims[1][1] <= y_point
       /\ y_point <= d.y_lims[1][2]

\* sorted_y_lims is None or sorted_y_lims[0] <= y_point <= sorted_y_lims[1]
InLimits(d, y_point) ==
    \/ d.sorted_y_lims = None
    \/ /\ d.sorted_y_lims[1][1] <= y_point
       /\ y_point <= d.sorted_y_lims[1][2]

\* the state's own segment
StateLine(state) ==
    [ xs |-> <<state.leftPointx, state.rightPointx>>,
      ys |-> <<state.leftPointy, state.rightPointy>>,
      c |-> state.color, lw |-> 3, ls |-> "-", label |-> state.legend ]

\* the annotations of one state: its label and its energy
StateAnnotations(d, state, offset) ==
    LET y1 == state.leftPointy + state.labelOffset[2] + offset
        y2 == state.leftPointy + state.textOffset[2] - offset
    IN  (IF InLimits(d, y1)
         THEN << [ text |-> state.label,
                   xy |-> <<state.leftPointx + state.labelOffset[1], y1>>,
                   color |-> state.labelColor, verticalalignment |-> "bottom",
                   annotation_clip |-> TRUE ] >>
         ELSE <<>>)
        \o
        (IF state.show_energy /\ InLimits(d, y2)
         THEN << [ text |-> FormatEnergy(Energy(state)),
                   xy |-> <<state.leftPointx + state.textOffset[1], y2>>,
                   color |-> state.labelColor, verticalalignment |-> "top",
                   annotation_clip |-> TRUE ] >>
         ELSE <<>>)

\* the imshow call of a state that carries an image
StateImage(state, xlim, ylim) ==
    LET x_range == RInt(xlim[2] - xlim[1])
        y_range == RInt(ylim[2] - xlim[1])
        shape == state.image[1].shape
        aspect_ratio == Rat(shape[2], shape[1])
        axes_left == RDiv(RInt(state.leftPointx - xlim[1]), x_range)
        axes_right == RDiv(RInt(state.rightPointx - xlim[1]), x_range)
        axes_width == RSub(axes_right, axes_left)
        axes_bottom == RDiv(RInt(state.leftPointy - ylim[1]), y_range)
        axes_height == RDiv(axes_width, aspect_ratio)
        axes_top == RAdd(axes_bottom, axes_height)
        scale == Rat(state.imageScale, Unit)
        data_left == RInt(state.leftPointx)
        data_right == RMul(RInt(state.rightPointx), scale)
        data_bottom == RInt(state.leftPointy)
        data_top == RMul(RAdd(RInt(ylim[1]), RMul(axes_top, y_range)), scale)
    IN  [ image |-> state.image[1],
          extent |-> << RAdd(data_left, RInt(state.imageOffset[1])),
                        RAdd(data_right, RInt(state.imageOffset[1])),
                        RAdd(data_bottom, RInt(state.imageOffset[2])),
                        RAdd(data_top, RInt(state.imageOffset[2])) >>,
          aspect |-> aspect_ratio, interpolation |-> "lanczos" ]

\* the colours the plotting library knows; a call that is given another
\* one raises ValueError
KnownColors == {"k", "b", "red", "gray", "RED", "BLACK"}
ValidColor(c) == c \in KnownColors
ColorError == Exc("ValueError", "not a valid value for color")

\* the index of the first colour the library does not know, 0 if none
BadAt(colors) ==
    IF \E i \in 1..Len(colors) : ~ValidColor(colors[i])
    THEN CHOOSE i \in 1..Len(colors) :
            /\ ~ValidColor(colors[i])
            /\ \A j \in 1..(i - 1) : ValidColor(colors[j])
    ELSE 0

\* (mutant) the connector that leaves the source at its left point
LinkOf_FromLeft(d, state, token) ==
    LET link == Strip(token)
        raw == Split(link, ":")
        dest == raw[1]
        color == IF Len(raw) > 1 THEN raw[2] ELSE "BLACK"
    IN  IF HasKey(d, dest)
        THEN [ lines |-> << [ xs |-> <<state.leftPointx, Lookup(d, dest).leftPointx>>,
                              ys |-> <<state.leftPointy, Lookup(d, dest).leftPointy>>,
                              c |-> color, ls |-> "--", lw |-> 1, label |-> None ] >>,
               out |-> <<>>,
               exc |-> IF ValidColor(color) THEN NoExc ELSE ColorError ]
        ELSE [ lines |-> <<>>, out |-> <<"Name: " \o dest \o " is unknown.">>,
               exc |-> NoExc ]

\* one token of linksTo, drawn from state: the connector, or the message
\* that its target is unknown
LinkOf(d, state, token) ==
    LET link == Strip(token)
        raw == Split(link, ":")
        dest == raw[1]
        color == IF Len(raw) > 1 THEN raw[2] ELSE "BLACK"
    IN  IF HasKey(d, dest)
        THEN [ lines |-> << [ xs |-> <<state.rightPointx, Lookup(d, dest).leftPointx>>,
                              ys |-> <<state.rightPointy, Lookup(d, dest).leftPointy>>,
                              c |-> color, ls |-> "--", lw |-> 1, label |-> None ] >>,
               out |-> <<>>,
               exc |-> IF ValidColor(color) THEN NoExc ELSE ColorError ]
        ELSE [ lines |-> <<>>, out |-> <<"Name: " \o dest \o " is unknown.">>,
               exc |-> NoExc ]

\* the links of one state, from its i-th token on
RECURSIVE LinksFrom(_, _, _, _)
LinksFrom(d, state, tokens, i) ==
    IF i > Len(tokens) THEN [lines |-> <<>>, out |-> <<>>, exc |-> NoExc]
    ELSE LET a == LinkOf(d, state, tokens[i])
             b == LinksFrom(d, state, tokens, i + 1)
         IN  IF a.exc # NoExc THEN [a EXCEPT !.lines = <<>>]
             ELSE [lines |-> a.lines \o b.lines, out |-> a.out \o b.out,
                   exc |-> b.exc]

StateLinks(d, state) ==
    IF state.linksTo # "" THEN LinksFrom(d, state, Split(state.linksTo, ","), 1)
    ELSE [lines |-> <<>>, out |-> <<>>, exc |-> NoExc]

\* the concatenation of a sequence of sequences
RECURSIVE Concat(_)
Concat(ss) == IF ss = <<>> THEN <<>> ELSE Head(ss) \o Concat(Tail(ss))

\* (mutant) savefig called whether or not the drawing was completed
Saved_Always(d, completed) == Some(d.outputName)

\* self.fig.savefig(self.outputName), the last statement of Draw: reached
\* only when no call before it raised
Saved(d, completed) == IF completed THEN Some(d.outputName) ELSE None

\* Diagram.Draw on the canvas ax, under the limits of view: the canvas
\* after the call, the messages printed, the exception raised and the file
\* written.  Each loop over self.statesList is the concatenation of what it
\* emits per state; a plot or annotate call that is given a colour the
\* library does not know raises, and nothing after it is executed.
Draw(d, ax, view) ==
    LET offset == view.ylim[2] \div Unit
        states == d.statesList
        n == Len(states)
        stateLines == [i \in 1..n |-> StateLine(states[i])]
        b1 == BadAt([i \in 1..n |-> stateLines[i].c])
        anns == Concat([i \in 1..n |-> StateAnnotations(d, states[i], offset)])
        b2 == IF b1 > 0 THEN 0 ELSE BadAt([k \in 1..Len(anns) |-> anns[k].color])
        reached == b1 = 0 /\ b2 = 0
        links == [i \in 1..n |-> StateLinks(d, states[i])]
        b3 == IF reached /\ \E i \in 1..n : links[i].exc # NoExc
              THEN CHOOSE i \in 1..n :
                      /\ links[i].exc # NoExc
                      /\ \A j \in 1..(i - 1) : links[j].exc = NoExc
              ELSE 0
        upto == IF ~reached THEN 0 ELSE IF b3 > 0 THEN b3 ELSE n
        completed == reached /\ b3 = 0
    IN  [ ax |-> [ hlines |-> ax.hlines
                       \o << [y |-> 0, color |-> "gray", linestyle |-> ":"] >>,
                   lines |-> ax.lines
                       \o (IF b1 > 0 THEN SubSeq(stateLines, 1, b1 - 1)
                           ELSE stateLines)
                       \o Concat([i \in 1..upto |-> links[i].lines]),
                   annotations |-> ax.annotations
                       \o (IF b1 > 0 THEN <<>>
                           ELSE IF b2 > 0 THEN SubSeq(anns, 1, b2 - 1)
                           ELSE anns),
                   images |-> ax.images
                       \o (IF ~reached THEN <<>>
                           ELSE Concat([i \in 1..n |->
                                    IF states[i].image # None
                                    THEN <<StateImage(states[i], view.xlim, view.ylim)>>
                                    ELSE <<>>])),
                   ylabel |-> IF completed THEN Some(d.energyUnits) ELSE ax.ylabel,
                   ylim |-> IF completed /\ d.y_lims # None THEN d.y_lims
                            ELSE ax.ylim,
                   xticks |-> IF completed THEN Some(<<>>) ELSE ax.xticks,
                   legend |-> IF completed /\ d.do_legend THEN TRUE ELSE ax.legend ],
          out |-> Concat([i \in 1..upto |-> links[i].out]),
          exc |-> IF completed THEN NoExc ELSE ColorError,
          saved |-> Saved(d, completed) ]

(***************************************************************************)
(* The inputs.                                                             *)
(*                                                                         *)
(* An input file is a fixed sequence of lines followed by any number of    *)
(* lines drawn from a vocabulary: inp.lines is the fixed part, inp.pos the *)
(* number of its lines read so far, inp.vocab the vocabulary of the rest.  *)
(***************************************************************************)
Header == <<"width = 8", "height = 8", "output = test">>

\* the inputs that are a fixed file
File(lines) == [lines |-> lines, vocab |-> {}]

\* a state block ENERGY = e, ENERGY SHIFT = s, a second block ENERGY = 3,
\* and the line GLOBAL-SHIFT = g before (at = 0), between (1) or after
\* (2) the blocks
EnergyCases ==
    [e : {"3", "-5"}, s : {"1"}, g : {"2", "-1.5"}, at : {0, 1, 2}]
EnergyFile(c) ==
    LET shift == <<"GLOBAL-SHIFT = " \o c.g>>
    IN  Header
        \o (IF c.at = 0 THEN shift ELSE <<>>)
        \o <<"{", "name = a", "ENERGY = " \o c.e, "ENERGY SHIFT = " \o c.s, "}">>
        \o (IF c.at = 1 THEN shift ELSE <<>>)
        \o <<"{", "name = b", "ENERGY = 3", "}">>
        \o (IF c.at = 2 THEN shift ELSE <<>>)

\* the chain A (column 1, energy 0) -> B (column 2, energy -5, linked to
\* C) -> C (column 3, energy -2)
ChainFile ==
    Header
    \o <<"{", "name = A", "column = 1", "energy = 0", "}">>
    \o <<"{", "name = B", "column = 2", "energy = -5", "linksto = C", "}">>
    \o <<"{", "name = C", "column = 3", "energy = -2", "}">>

\* links to a state declared later, to one declared earlier, in another
\* case than the name was declared in, and to names no state bears
LinkFile ==
    Header
    \o <<"{", "name = a", "column = 0", "links to = B:red, nosuch ,c", "}">>
    \o <<"{", "Name = b", "energy = -5", "LinksTo = a", "}">>
    \o <<"{", "name = C", "energy = 1", "energy shift = 0.5",
         "linksto = ghost", "}">>

\* an energy range r and states whose annotations fall inside, on the
\* edge of and outside the range
Ranges == {"2,-1", "-1,2"}
LimitsFile(r) ==
    Header
    \o <<"energy range = " \o r>>
    \o <<"{", "name = in", "energy = 1", "}">>
    \o <<"{", "name = edge", "energy = 2", "label offset = 0,-0.01",
         "text offset = 0, 0.05", "}">>
    \o <<"{", "name = out", "energy = 3", "}">>
    \o <<"{", "name = hidden", "energy = 0", "hide energy", "}">>

\* image scales below, on and above the floor, and one that is no number
ScaleFile ==
    Header
    \o <<"output-file = scale.pdf", "font-size = 12">>
    \o <<"{", "name = low", "image scale = 0.02", "}">>
    \o <<"{", "name = floor", "imagescale = 0.1", "}">>
    \o <<"{", "name = high", "Image-Scale = 2.5", "image scale = x", "}">>
    \o <<"{", "name = none", "}">>
    \o <<"{", "name = nan", "image scale = nan", "}">>

\* states drawn in a colour the library does not know: the segment of the
\* second state, the label of the first, a connector of the second
ColourLines ==
    { "textcolour = nocolor", "labelcolour = nocolor", "linksto = a:nocolor" }
ColourFile(line) ==
    Header
    \o <<"{", "name = a", "linksto = nosuch", "}">>
    \o <<"{", "name = b", line, "}">>

\* states that carry an image, drawn as large as it is and where the state
\* is, in the first and in a later column
ImageFile ==
    Header
    \o <<"{", "name = pic", "energy = 2", "image = mol.png", "}">>
    \o <<"{", "name = far", "energy = -1", "column = 3", "image = mol.png",
         "image scale = 1", "image offset = 0, 0", "}">>

\* states declared in the columns 0 and -2 only
LowColumnsFile ==
    Header
    \o <<"{", "name = zero", "column = 3", "column = 0", "}">>
    \o <<"{", "name = minus", "column = -2", "}">>

\* a file of one state, and the same file with blank lines, comments and
\* closing braces outside the blocks
PlainFile == Header \o <<"{", "name = a", "energy = 1", "text colour = b", "}">>
CommentedFile ==
    <<"", "# a diagram", "width = 8", "   ", "height = 8",
      "  # output = no.pdf", "output = test", "}", "{", "#name = x",
      "name = a", "", "energy = 1", "  #}", "text colour = b", "}", "#",
      "} # again">>

Sources ==
    { File(ChainFile), File(LinkFile), File(ScaleFile), File(ImageFile),
      File(LowColumnsFile), File(CommentedFile) }
    \cup { File(ColourFile(line)) : line \in ColourLines }
    \cup { File(LimitsFile(r)) : r \in Ranges }
    \cup
    { [lines |-> Header,
       vocab |-> {"global-shift = 2", "{", "}", "energy = 3",
                  "energy shift = 1", "name = a"}] }
    \cup { [lines |-> <<>>,
             vocab |-> {"width = 8", "height = 8", "output = test",
                        "global-shift = abc", "width = x", "bogus = 1", "nokey",
                        "energy range = 1,2,3", "{", "}", "name",
                        "labeloffset = 1", "energy = x"}] }
    \cup { File(EnergyFile(c)) : c \in EnergyCases }

\* the limits the axes may report: xlim, ylim in hundredths.  Each has
\* xlim[1] # xlim[0] and ylim[1] # xlim[0], the two ranges Draw divides by.
Views ==
    { [xlim |-> <<-5, 105>>, ylim |-> <<-100, 100>>],
      [xlim |-> <<0, 400>>, ylim |-> <<-500, 500>>] }

\* what a direct client of the Diagram class passes to it
ApiYLims == {None, Some(<<-100, 200>>), Some(<<200, -100>>)}
ApiStates ==
    { [NewState EXCEPT !.name = "foo", !.linksTo = "bar"],
      [NewState EXCEPT !.name = "FOO", !.legend = Some("L")],
      [NewState EXCEPT !.name = "bar", !._energy = 3 * Unit,
                       !.linksTo = "Foo:red, nosuch"] }

(***************************************************************************)
(* The state of a run.                                                     *)
(***************************************************************************)
VARIABLES
    pc,            \* where the run is
    inp,           \* the input file being read
    stateBlock, statesList, width, height, global_shift, fontSize,
    energyUnits, y_lims, outName,          \* the locals of ReadInput
    diagram,       \* the Diagram, None before it is constructed
    ax,            \* the canvas of the Diagram
    printed,       \* what the last step printed
    exc,           \* the exception the last step raised
    rcFontSize,    \* plt.rcParams["font.size"], None while it is the library's
    written,       \* the files written so far
    handle         \* the file ReadInput opened: "none", "open", "closed"

locals == <<stateBlock, statesList, width, height, global_shift, fontSize,
            energyUnits, y_lims, outName>>
vars == <<pc, inp, locals, diagram, ax, printed, exc, rcFontSize, written,
          handle>>

\* the locals of ReadInput as one record
Locals ==
    [ stateBlock |-> stateBlock, statesList |-> statesList, width |-> width,
      height |-> height, global_shift |-> global_shift, fontSize |-> fontSize,
      energyUnits |-> energyUnits, y_lims |-> y_lims, outName |-> outName ]

SetLocals(L) ==
    /\ stateBlock' = L.stateBlock
    /\ statesList' = L.statesList
    /\ width' = L.width
    /\ height' = L.height
    /\ global_shift' = L.global_shift
    /\ fontSize' = L.fontSize
    /\ energyUnits' = L.energyUnits
    /\ y_lims' = L.y_lims
    /\ outName' = L.outName

NoInput == [lines |-> <<>>, vocab |-> {}, pos |-> 0]

\* the arguments main is started with: len(sys.argv), and whether the
\* file example.inp exists already
Argcs == {1, 2, 3}

Init ==
    /\ pc = "start"
    /\ inp = NoInput
    /\ stateBlock = InitLocals.stateBlock
    /\ statesList = InitLocals.statesList
    /\ width = InitLocals.width
    /\ height = InitLocals.height
    /\ global_shift = InitLocals.global_shift
    /\ fontSize = InitLocals.fontSize
    /\ energyUnits = InitLocals.energyUnits
    /\ y_lims = InitLocals.y_lims
    /\ outName = InitLocals.outName
    /\ diagram = None
    /\ ax = EmptyAxes
    /\ printed = <<>>
    /\ exc = NoExc
    /\ rcFontSize = None
    /\ written = {}
    /\ handle = "none"

\* an exception leaves the function: its locals are gone, the run is over
Fatal(e) ==
    /\ pc' = "fatal"
    /\ exc' = e
    /\ SetLocals(InitLocals)

(***************************************************************************)
(* main(): the check of the arguments.                                     *)
(***************************************************************************)
Main ==
    /\ pc = "start"
    /\ \E argc \in Argcs, exists \in BOOLEAN :
         \/ /\ argc = 1
            /\ printed' = <<"I need an input file!">>
                          \o (IF ~exists THEN <<"An example file will be made.",
                                                "Made example file as 'example.inp'.">>
                              ELSE <<>>)
            /\ written' = IF ~exists THEN written \cup {"example.inp"} ELSE written
            /\ Fatal(Exc("IOError", "No Input file provided."))
         \/ /\ argc > 2
            /\ printed' = <<"Incorrect arguments.">>
            /\ written' = written
            /\ Fatal(Exc("ValueError", "Incorrect Arguments."))
         \/ /\ argc = 2
            /\ pc' = "open"
            /\ printed' = <<>>
            /\ UNCHANGED <<exc, locals, written>>
    /\ UNCHANGED <<inp, diagram, ax, rcFontSize, handle>>

(***************************************************************************)
(* ReadInput.                                                              *)
(***************************************************************************)
\* open(filename, "r") and the assignments before the loop
OpenInput ==
    /\ pc = "open"
    /\ \/ /\ printed' = <<"Error opening file.">>
          /\ Fatal(Exc("SystemExit", "Could not open Input file"))
          /\ inp' = inp
          /\ handle' = handle
       \/ /\ \E src \in Sources : inp' = [lines |-> src.lines, vocab |-> src.vocab,
                                          pos |-> 0]
          /\ pc' = "read"
          /\ printed' = <<>>
          /\ SetLocals(InitLocals)
          /\ exc' = exc
          /\ handle' = "open"
    /\ UNCHANGED <<diagram, ax, rcFontSize, written>>

\* the step ReadInput takes on the line text
ReadText(text) ==
    LET r == ReadLineStep(Locals, text)
    IN  /\ printed' = r.out
        /\ rcFontSize' = IF r.font # None THEN r.font ELSE rcFontSize
        /\ IF r.exc # NoExc
           THEN Fatal(r.exc)
           ELSE /\ SetLocals(r.loc)
                /\ pc' = pc
                /\ exc' = exc

\* one pass of "for line in inp": the next line of the fixed part, or a
\* line of the vocabulary, which may open a block while fewer than
\* MaxStates are open
ReadLine ==
    /\ pc = "read"
    /\ \/ /\ inp.pos < Len(inp.lines)
          /\ ReadText(inp.lines[inp.pos + 1])
          /\ inp' = [inp EXCEPT !.pos = @ + 1]
       \/ /\ inp.pos = Len(inp.lines)
          /\ \E text \in inp.vocab :
               /\ ~(~stateBlock /\ Ch(Strip(text), 1) = "{")
                    \/ Len(statesList) < MaxStates
               /\ ReadText(text)
          /\ inp' = inp
    /\ UNCHANGED <<diagram, ax, written, handle>>

\* the end of the input: lines 486-508.  The program never closes the file:
\* when ReadInput returns, its local inp held the only reference to the file
\* object and the interpreter's reference counting finalises (closes) it;
\* when ReadInput raises, the traceback of the exception keeps the frame
\* and with it the open file.
EndOfInput ==
    /\ pc = "read"
    /\ inp.pos = Len(inp.lines)
    /\ LET r == FinishInput(Locals)
       IN  /\ printed' = r.out
           /\ diagram' = r.d
           /\ IF r.exc # NoExc
              THEN Fatal(r.exc)
              ELSE /\ pc' = "layout"
                   /\ exc' = exc
                   /\ SetLocals(InitLocals)
           /\ handle' = IF r.exc # NoExc THEN handle ELSE "closed"
    /\ UNCHANGED <<inp, ax, rcFontSize, written>>

(***************************************************************************)
(* A client that uses the Diagram class itself.                            *)
(***************************************************************************)
ApiNewDiagram ==
    /\ pc = "start"
    /\ \E yl \in ApiYLims : diagram' = Some(NewDiagram(8, 8, 8, "test.pdf", yl))
    /\ pc' = "api"
    /\ UNCHANGED <<inp, locals, ax, printed, exc, rcFontSize, written, handle>>

\* diagram.AddState(state); the client goes on after a ValueError
ApiAddState ==
    /\ pc = "api"
    /\ Len(diagram[1].statesList) < MaxApiStates
    /\ \E state \in ApiStates :
         LET r == AddState(diagram[1], state)
         IN  /\ diagram' = Some(r.d)
             /\ printed' = r.out
             /\ exc' = r.exc
    /\ UNCHANGED <<pc, inp, locals, ax, rcFontSize, written, handle>>

(***************************************************************************)
(* The layout and the drawing, from main or from the client.               *)
(***************************************************************************)
Layout ==
    /\ pc \in {"layout", "api"}
    /\ diagram' = Some(MakeLeftRightPoints(diagram[1]))
    /\ pc' = IF pc = "layout" THEN "draw" ELSE pc
    /\ printed' = <<>>
    /\ UNCHANGED <<inp, locals, ax, exc, rcFontSize, written, handle>>

DrawStep ==
    /\ pc \in {"draw", "api"}
    /\ \E view \in Views :
         \E r \in {Draw(diagram[1], ax, view)} :
             /\ ax' = r.ax
             /\ written' = IF r.saved # None THEN written \cup {r.saved[1]}
                           ELSE written
             /\ IF r.exc # NoExc
                THEN /\ printed' = r.out
                     /\ pc' = "fatal"
                     /\ exc' = r.exc
                ELSE /\ printed' = r.out \o (IF pc = "draw" THEN <<"Image made!">>
                                             ELSE <<>>)
                     /\ pc' = "done"
                     /\ exc' = exc
    /\ UNCHANGED <<inp, locals, diagram, rcFontSize, handle>>

Next ==
    \/ Main
    \/ OpenInput
    \/ ReadLine
    \/ EndOfInput
    \/ ApiNewDiagram
    \/ ApiAddState
    \/ Layout
    \/ DrawStep

Spec == Init /\ [][Next]_vars

(***************************************************************************)
(* The properties.                                                         *)
(***************************************************************************)
\* ReadInput has returned a Diagram
Returned == pc \in {"layout", "draw", "done"}

\* the numbers the literals of the inputs denote, in hundredths
NumVal(t) ==
    CASE t = "3" -> 300
      [] t = "-5" -> -500
      [] t = "1" -> 100
      [] t = "2" -> 200
      [] t = "-1.5" -> -150

\* C1: when a block declares ENERGY = e and ENERGY SHIFT = s and a line
\* GLOBAL-SHIFT = g stands outside the blocks, the state's energy in the
\* Diagram ReadInput returns is e - g + s, and a block without ENERGY SHIFT
\* gets e - g: the shift is subtracted once per state, whether its line
\* comes before, between or after the blocks.
C1_EnergyComposition ==
    \A c \in EnergyCases :
        (Returned /\ inp.lines = EnergyFile(c)) =>
            /\ Len(diagram[1].statesList) = 2
            /\ Energy(diagram[1].statesList[1])
                 = NumVal(c.e) - NumVal(c.g) + NumVal(c.s)
            /\ Energy(diagram[1].statesList[2]) = NumVal("3") - NumVal(c.g)

\* a Diagram returned for the file whose GLOBAL-SHIFT line stands between
\* the blocks, with the energies -5 - (-1.5) + 1 and 3 - (-1.5)
C1_Witness ==
    /\ Returned
    /\ inp.lines = EnergyFile([e |-> "-5", s |-> "1", g |-> "-1.5", at |-> 1])
    /\ Energy(diagram[1].statesList[1]) = -250
    /\ Energy(diagram[1].statesList[2]) = 450

\* two names are the same up to the case of their letters
SameName(a, b) == Upper(a) = Upper(b)

DuplicateName == Exc("ValueError", "Non unique state names.")

\* C2: the names of the states a Diagram holds are pairwise distinct up to
\* case, and an AddState whose name equals a registered name up to case
\* raises the duplicate-name error and registers nothing.
C2_UniqueNames ==
    diagram # None =>
        LET states == diagram[1].statesList
        IN  /\ \A i, j \in 1..Len(states) :
                 i # j => ~SameName(states[i].name, states[j].name)
            /\ \A state \in ApiStates :
                 (\E i \in 1..Len(states) : SameName(states[i].name, state.name))
                 => /\ AddState(diagram[1], state).exc = DuplicateName
                    /\ AddState(diagram[1], state).d.statesList = states

\* "foo" was registered, then "FOO" (the one with a legend) was refused
C2_Witness ==
    /\ pc = "api"
    /\ exc = DuplicateName
    /\ Len(diagram[1].statesList) = 1
    /\ diagram[1].statesList[1].legend = None
    /\ diagram[1].statesList[1].linksTo = "BAR"
    /\ diagram[1].do_legend

\* the conditions listed as fatal, by the exception they end the run with
\* (a missing output name ends it with UnboundLocalError, see C5)
ListedFatal ==
    { Exc("IOError", "No Input file provided."),
      Exc("ValueError", "Incorrect Arguments."),
      Exc("SystemExit", "Could not open Input file"),
      DuplicateName,
      Exc("ValueError", "Height not set"),
      Exc("ValueError", "Width not set"),
      Exc("ValueError", "Output name not set"),
      Exc("UnboundLocalError",
          "local variable 'outName' referenced before assignment"),
      Exc("ValueError", "ERROR: Unexpected {"),
      Exc("IOError", "Failed to find image") }

\* C3: ReadInput aborts only for the listed fatal conditions; every other
\* malformed line is a warning and parsing continues.
\* (A run that ended before a Diagram was returned ended in main's checks
\* or in ReadInput.)
C3_OnlyListedFatal == (pc = "fatal" /\ diagram = None) => exc \in ListedFatal

\* lines that give a numeric field a value that is no number: outside the
\* blocks, and inside a block
BadGlobalNumbers ==
    { "global-shift = abc", "width = x", "height = 1.5", "font-size = big",
      "energy range = 1,x" }
BadStateNumbers ==
    { "column = x", "energy = x", "energy shift = --1", "labeloffset = 1,x",
      "labeloffset = x,1", "textoffset = a,b", "image offset = 1,y",
      "image scale = s" }

\* the step on the line text is a warning that changes no local
WarningOnly(text) ==
    LET r == ReadLineStep(Locals, text)
    IN  /\ r.exc = NoExc
        /\ r.out # <<>>
        /\ r.loc = Locals
        /\ r.font = None

\* C4: a line that gives a numeric field a value that does not parse as a
\* number produces a warning and leaves every field as it was.
C4_BadNumberIsWarning ==
    pc = "read" =>
        \A text \in (IF stateBlock THEN BadStateNumbers ELSE BadGlobalNumbers) :
            WarningOnly(text)

\* the errors "not set" of the three mandatory settings
NotSet(what) == Exc("ValueError", what \o " not set")

\* C5: at the end of the input, a height, width or output name that was
\* never set ends ReadInput with the "not set" error of that setting, and
\* no Diagram is returned.
C5_MissingSettingIsNotSetError ==
    (pc = "read" /\ inp.pos = Len(inp.lines)
       /\ (height = 0 \/ width = 0 \/ outName = None)) =>
        LET r == FinishInput(Locals)
        IN  /\ r.d = None
            /\ r.exc \in {NotSet("Height"), NotSet("Width"), NotSet("Output name")}
            /\ (r.exc = NotSet("Height") => height = 0)
            /\ (r.exc = NotSet("Width") => width = 0)
            /\ (r.exc = NotSet("Output name") => outName = None)

\* non-comment lines whose first character is "{"
OpeningLines == {"{", "  { name = a", "{{", "{ # x", "{}"}

UnexpectedBrace == Exc("ValueError", "ERROR: Unexpected {")

\* C6: inside a state block a non-comment line that starts with "{" raises
\* the fatal error, and a run that ended with it has no Diagram; outside a
\* block such a line appends exactly one State with the default attributes
\* and puts the parser inside the block, changing nothing else.
C6_OpeningBrace ==
    /\ pc = "read" =>
          \A line \in OpeningLines :
              LET r == ReadLineStep(Locals, line)
              IN  IF stateBlock
                  THEN r.exc = UnexpectedBrace
                  ELSE /\ r.exc = NoExc
                       /\ r.loc = [Locals EXCEPT !.statesList = Append(@, NewState),
                                                 !.stateBlock = TRUE]
    /\ (pc = "fatal" /\ exc = UnexpectedBrace) => diagram = None

\* the run ended at a "{" read inside a block
C6_Witness ==
    /\ pc = "fatal"
    /\ exc = UnexpectedBrace
    /\ printed = <<"Unexpected opening '{' within state block">>
    /\ diagram = None

MissingBrace == "WARNING: Final closing '}' is missing."

\* C7: when the input ends inside a state block, ReadInput ends as it
\* would had a closing "}" followed the last line (the same Diagram with the
\* same states and attributes, the same exception if one is raised), the
\* only difference being the warning that the final "}" is missing.
C7_EndInsideBlock ==
    (pc = "read" /\ inp.pos = Len(inp.lines) /\ stateBlock) =>
        LET open == FinishInput(Locals)
            closed == FinishInput(ReadLineStep(Locals, "}").loc)
        IN  /\ ReadLineStep(Locals, "}").exc = NoExc
            /\ ~ReadLineStep(Locals, "}").loc.stateBlock
            /\ open.d = closed.d
            /\ open.exc = closed.exc
            /\ open.out = <<MissingBrace>> \o closed.out
            /\ open.d # None =>
                  /\ Len(open.d[1].statesList) = Len(statesList)
                  /\ LET last == statesList[Len(statesList)]
                     IN  open.d[1].statesList[Len(statesList)]
                           = [last EXCEPT !._energy = @ - global_shift]

\* the input ended inside the second block: the Diagram ReadInput returned
\* holds its state, with the name and the energy assigned in the block
C7_Witness ==
    /\ pc = "layout"
    /\ printed = <<MissingBrace>>
    /\ Len(diagram[1].statesList) = 2
    /\ diagram[1].statesList[2].name = "A"
    /\ diagram[1].statesList[2]._energy = 300 - 200
    /\ diagram[1].statesList[2].energy_shift = 100

\* the end points of the states of a Diagram
Points(d) ==
    [i \in 1..Len(d.statesList) |->
        << d.statesList[i].leftPointx, d.statesList[i].leftPointy,
           d.statesList[i].rightPointx, d.statesList[i].rightPointy >>]

\* MakeLeftRightPoints has run on the Diagram main holds
LaidOut == pc \in {"draw", "done"} /\ inp # NoInput

\* C8: after MakeLeftRightPoints a state with column c and energy E (its
\* energy plus its energy shift) has the left point (1.5 c, E) and the right
\* point (1.5 c + 1, E); the chain A, B, C of columns 1, 2, 3 and energies
\* 0, -5, -2 gets (0,0)-(1,0), (1.5,-5)-(2.5,-5) and (3,-2)-(4,-2).
C8_LeftRightPoints ==
    /\ diagram # None =>
          LET before == diagram[1].statesList
              after == MakeLeftRightPoints(diagram[1]).statesList
          IN  /\ Len(after) = Len(before)
              /\ \A i \in 1..Len(before) :
                    LET c == before[i].column
                        E == before[i]._energy + before[i].energy_shift
                    IN  /\ 2 * after[i].leftPointx = 3 * c * Unit
                        /\ after[i].rightPointx = after[i].leftPointx + Unit
                        /\ after[i].leftPointy = E
                        /\ after[i].rightPointy = E
                        /\ after[i].column = c
                        /\ Energy(after[i]) = E
    /\ LaidOut => diagram[1] = MakeLeftRightPoints(diagram[1])
    /\ (LaidOut /\ inp.lines = ChainFile) =>
          Points(diagram[1]) = << <<0, 0, Unit, 0>>,
                                  <<150, -500, 250, -500>>,
                                  <<300, -200, 400, -200>> >>

\* the chain has been laid out and drawn
C8_Witness ==
    /\ pc = "done"
    /\ inp.lines = ChainFile
    /\ Points(diagram[1])[2] = <<150, -500, 250, -500>>
    /\ diagram[1].statesList[3].column = 2

\* the tokens of the linksTo list of a state
Tokens(state) == IF state.linksTo = "" THEN <<>> ELSE Split(state.linksTo, ",")

\* the target of a token: what stands before its ":"
Target(token) == Split(Strip(token), ":")[1]

\* the target of the token names a state of the Diagram
Known(d, token) ==
    \E i \in 1..Len(d.statesList) : SameName(d.statesList[i].name, Target(token))

TargetOf(d, token) ==
    d.statesList[CHOOSE i \in 1..Len(d.statesList) :
                    SameName(d.statesList[i].name, Target(token))]

\* the connectors the tokens of the states ask for, by their end points
ExpectedConnectors(d) ==
    Concat([i \in 1..Len(d.statesList) |->
        LET state == d.statesList[i]
        IN  Concat([k \in 1..Len(Tokens(state)) |->
                LET token == Tokens(state)[k]
                IN  IF Known(d, token)
                    THEN << [ from |-> <<state.rightPointx, state.rightPointy>>,
                              to |-> << TargetOf(d, token).leftPointx,
                                        TargetOf(d, token).leftPointy >> ] >>
                    ELSE <<>>])])

\* the number of tokens whose target names no state
UnknownTokens(d) ==
    Len(Concat([i \in 1..Len(d.statesList) |->
        LET state == d.statesList[i]
        IN  SelectSeq(Tokens(state), LAMBDA token : ~Known(d, token))]))

\* the dashed lines of a canvas, by their end points
Connectors(lines) ==
    LET dashed == SelectSeq(lines, LAMBDA l : l.ls = "--")
    IN  [k \in 1..Len(dashed) |->
            [ from |-> <<dashed[k].xs[1], dashed[k].ys[1]>>,
              to |-> <<dashed[k].xs[2], dashed[k].ys[2]>> ]]

RECURSIVE Join(_, _)
Join(tokens, sep) ==
    IF tokens = <<>> THEN ""
    ELSE IF Len(tokens) = 1 THEN tokens[1]
    ELSE tokens[1] \o sep \o Join(Tail(tokens), sep)

\* the Diagram without the tokens whose target names no state
Pruned(d) ==
    [d EXCEPT !.statesList =
        [i \in 1..Len(d.statesList) |->
            [d.statesList[i] EXCEPT !.linksTo =
                Join(SelectSeq(Tokens(d.statesList[i]),
                               LAMBDA token : Known(d, token)), ",")]]]

\* C9: Draw emits, for every token of every state whose target names a
\* state of the Diagram (whatever the case it was written in, declared
\* before or after the source), exactly one dashed line from the right
\* point of the source to the left point of the target, in the order of the
\* states and tokens; a token whose target names no state gets a warning
\* and no line, and the dashed lines are those of the Diagram without the
\* unknown tokens.
C9_Links ==
    pc = "done" =>
        /\ Connectors(ax.lines) = ExpectedConnectors(diagram[1])
        /\ Len(SelectSeq(printed, LAMBDA m : m # "Image made!"))
             = UnknownTokens(diagram[1])
        /\ \A view \in Views :
             LET r == Draw(Pruned(diagram[1]), EmptyAxes, view)
             IN  /\ r.out = <<>>
                 /\ Connectors(r.ax.lines) = Connectors(ax.lines)

\* the links "B:red, nosuch ,c" of a, "a" of b and "ghost" of C drawn:
\* a to b (declared later), a to C (written in lower case), b to a, and
\* two warnings
C9_Witness ==
    /\ pc = "done"
    /\ inp.lines = LinkFile
    /\ Connectors(ax.lines)
         = << [from |-> <<-50, 0>>, to |-> <<150, -500>>],
              [from |-> <<-50, 0>>, to |-> <<150, 150>>],
              [from |-> <<250, -500>>, to |-> <<-150, 0>>] >>
    /\ Len(printed) = 3

\* the limits in sorted order contain y
Within(y_limits, y) ==
    LET lo == IF y_limits[1] <= y_limits[2] THEN y_limits[1] ELSE y_limits[2]
        hi == IF y_limits[1] <= y_limits[2] THEN y_limits[2] ELSE y_limits[1]
    IN  lo <= y /\ y <= hi

\* the annotations Draw is to emit under a view, by their alignment and y
ExpectedAnnotations(d, view) ==
    LET offset == view.ylim[2] \div Unit
    IN  Concat([i \in 1..Len(d.statesList) |->
            LET state == d.statesList[i]
                labelY == state.leftPointy + state.labelOffset[2] + offset
                energyY == state.leftPointy + state.textOffset[2] - offset
            IN  (IF d.y_lims = None \/ Within(d.y_lims[1], labelY)
                 THEN <<[kind |-> "bottom", y |-> labelY, text |-> state.label]>>
                 ELSE <<>>)
                \o
                (IF state.show_energy
                    /\ (d.y_lims = None \/ Within(d.y_lims[1], energyY))
                 THEN <<[kind |-> "top", y |-> energyY,
                         text |-> FormatEnergy(Energy(state))]>>
                 ELSE <<>>)])

Annotations(anns) ==
    [k \in 1..Len(anns) |->
        [kind |-> anns[k].verticalalignment, y |-> anns[k].xy[2],
         text |-> anns[k].text]]

\* C10: with y-limits, Draw emits the label of a state iff the label's y
\* lies between the smaller and the larger limit (bounds included), and
\* the energy annotation iff the state shows its energy and that
\* annotation's y lies between them; without y-limits it emits every label
\* and the energy annotation of exactly the states that show their energy
\* (of a Draw that runs to its end).
C10_AnnotationsWithinLimits ==
    /\ pc \in {"draw", "api"} =>
          \A view \in Views :
              Draw(diagram[1], ax, view).exc = NoExc =>
                  Annotations(Draw(diagram[1], ax, view).ax.annotations)
                    = ExpectedAnnotations(diagram[1], view)
    /\ pc = "done" =>
          \E view \in Views :
              Annotations(ax.annotations) = ExpectedAnnotations(diagram[1], view)

\* drawn with the range given as "2,-1": the label on the upper limit is
\* there, the energy annotation above it, the annotations of the state
\* outside the range and the energy of the hidden state are not
C10_Witness ==
    /\ pc = "done"
    /\ inp.lines = LimitsFile("2,-1")
    /\ diagram[1].y_lims = Some(<<200, -100>>)
    /\ Annotations(ax.annotations)
         = << [kind |-> "bottom", y |-> 101, text |-> ""],
              [kind |-> "top", y |-> 99, text |-> "   1.000"],
              [kind |-> "bottom", y |-> 200, text |-> ""],
              [kind |-> "bottom", y |-> 1, text |-> ""] >>

\* x >= y of two floats
FGe(x, y) == x # NaN /\ y # NaN /\ x >= y

\* the floor of the image scale, 0.1
ScaleFloor == Unit \div 10

ClampWarning == "image scale cannot be < 0.1, setting to 0.1/"

\* the last State of the locals L
LastState(L) == L.statesList[Len(L.statesList)]

\* C11: the image scale of every state is at least 0.1 whatever lines its
\* block holds: an image-scale line with a value below 0.1 stores exactly
\* 0.1 and prints the clamp warning, a value of 0.1 or more is stored as
\* given without that warning, and a state without such a line has 1.0.
C11_ImageScaleFloor ==
    /\ NewState.imageScale = Unit
    /\ \A i \in 1..Len(statesList) : FGe(statesList[i].imageScale, ScaleFloor)
    /\ diagram # None =>
          \A i \in 1..Len(diagram[1].statesList) :
              FGe(diagram[1].statesList[i].imageScale, ScaleFloor)
    /\ (pc = "read" /\ stateBlock) =>
          /\ \A text \in {"image scale = 0.02", "image scale = 0", "scale image = -3"} :
                LET r == ReadLineStep(Locals, text)
                IN  /\ r.exc = NoExc
                    /\ LastState(r.loc).imageScale = ScaleFloor
                    /\ r.out = <<ClampWarning>>
          /\ \A v \in {"0.1", "0.11", "1", "2.5"} :
                LET r == ReadLineStep(Locals, "image scale = " \o v)
                IN  /\ r.exc = NoExc
                    /\ LastState(r.loc).imageScale = ParseFloat(v).val
                    /\ r.out = <<>>

\* COLUMN lines, with the integer each gives
ColumnLines ==
    { <<"column = 1", 1>>, <<"column = 3", 3>>, <<"COLUMN=2", 2>>,
      <<"  Column  =   12  ", 12>>, <<"column = +4", 4>>, <<"column = 0", 0>>,
      <<"column = -2", -2>> }

\* C12: the line column = k in a state block stores the column index k - 1
\* in the state of the block: column = 1 gives 0 and column = 3 gives 2; the
\* states of the chain, declared with the columns 1, 2, 3, are returned with
\* the indices 0, 1, 2.
C12_ColumnIsOneLess ==
    /\ (pc = "read" /\ stateBlock) =>
          \A cl \in ColumnLines :
              LET r == ReadLineStep(Locals, cl[1])
              IN  /\ r.exc = NoExc
                  /\ r.out = <<>>
                  /\ r.loc = SetLast(Locals, "column", cl[2] - 1)
    /\ (Returned /\ inp.lines = ChainFile) =>
          [i \in 1..Len(diagram[1].statesList) |-> diagram[1].statesList[i].column]
            = <<0, 1, 2>>

\* the chain, declared with the columns 1, 2 and 3, has been returned
C12_Witness ==
    /\ pc = "layout"
    /\ inp.lines = ChainFile
    /\ diagram[1].statesList[1].column = 0
    /\ diagram[1].statesList[3].column = 2

SuffixWarning == "WARNING: Output will be .pdf. Adding this to output file."

\* OUTPUT lines, with the name each is to store and whether the suffix
\* is added
OutputLines ==
    { <<"output = test", "test.pdf", TRUE>>,
      <<"OUTPUT-FILE = a b", "a b.pdf", TRUE>>,
      <<"output = x.pdf.txt", "x.pdf.txt.pdf", TRUE>>,
      <<"output = fig.PDF", "fig.PDF.pdf", TRUE>>,
      <<"output = pdf", "pdf.pdf", TRUE>>,
      <<"output = fig.pdf", "fig.pdf", FALSE>>,
      <<"Output-File =   dir/fig.pdf  ", "dir/fig.pdf", FALSE>>,
      <<"output = .pdf", ".pdf", FALSE>> }

\* C13: the output name of every Diagram ReadInput returns ends with
\* ".pdf": an OUTPUT line whose name lacks the suffix stores the name with
\* the suffix added once and prints a warning (output = test gives
\* test.pdf), and a name that ends with the suffix is stored unchanged.
C13_OutputEndsWithPdf ==
    /\ (Returned /\ inp # NoInput) => EndsWith(diagram[1].outputName, ".pdf")
    /\ (Returned /\ inp.lines = ChainFile) => diagram[1].outputName = "test.pdf"
    /\ (Returned /\ inp.lines = ScaleFile) => diagram[1].outputName = "scale.pdf"
    /\ (pc = "read" /\ ~stateBlock) =>
          \A ol \in OutputLines :
              LET r == ReadLineStep(Locals, ol[1])
              IN  /\ r.exc = NoExc
                  /\ r.loc = [Locals EXCEPT !.outName = Some(ol[2])]
                  /\ r.out = IF ol[3] THEN <<SuffixWarning>> ELSE <<>>

\* the Diagram of the chain, whose input says output = test
C13_Witness ==
    /\ pc = "draw"
    /\ inp.lines = ChainFile
    /\ diagram[1].outputName = "test.pdf"

\* the files written other than the example input
OutputsWritten == written \ {"example.inp"}

\* C14: the output file is written only by a Draw that ran to its end, on
\* the Diagram a parse returned and (in main) the layout positioned, and
\* after every call on the canvas; a run that ended with a fatal error,
\* wherever it occurred, has written nothing to the output.
C14_OutputWrittenLast ==
    /\ pc = "fatal" => OutputsWritten = {}
    /\ OutputsWritten # {} =>
          /\ pc = "done"
          /\ exc # ColorError
          /\ diagram # None
          /\ OutputsWritten = {diagram[1].outputName}
          /\ inp # NoInput => diagram[1] = MakeLeftRightPoints(diagram[1])
          /\ ax.xticks # None /\ ax.ylabel # None
          /\ Len(ax.lines) >= Len(diagram[1].statesList)
    /\ pc \in {"draw", "api"} =>
          \A view \in Views :
              LET r == Draw(diagram[1], ax, view)
              IN  r.saved # None <=> r.exc = NoExc

\* Draw raised at a connector of the second state, after the segments and
\* the annotations were drawn and a warning printed: nothing is written
C14_Witness ==
    /\ pc = "fatal"
    /\ exc = ColorError
    /\ inp.lines = ColourFile("linksto = a:nocolor")
    /\ Len(ax.lines) = 2
    /\ Len(ax.annotations) = 4
    /\ printed = <<"Name: NOSUCH is unknown.">>
    /\ written = {}

\* ReadInput has finished: it returned, or a step of it raised
ReadInputFinished ==
    \/ pc \in {"layout", "draw"}
    \/ pc = "done" /\ inp # NoInput
    \/ pc = "fatal" /\ handle # "none"

\* C15: once ReadInput has finished, by returning a Diagram or by raising,
\* the file it opened is no longer open; it is not open during the layout
\* and the rendering.
C15_HandleReleased == ReadInputFinished => handle = "closed"

\* the global keys with a value each, and spellings of each key that differ
\* from it in letter case or in what stands between its words
KeySpellings ==
    { <<"GLOBAL-SHIFT = 2", {"global-shift = 2", "Global-Shift = 2",
                             "GLOBAL SHIFT = 2", "global shift = 2",
                             "GLOBALSHIFT = 2", "globalshift = 2"}>>,
      <<"WIDTH = 9", {"width = 9", "Width = 9"}>>,
      <<"HEIGHT = 9", {"height = 9", "Height = 9"}>>,
      <<"OUTPUT-FILE = b.pdf", {"output-file = b.pdf", "Output-File = b.pdf",
                                "OUTPUT FILE = b.pdf", "output file = b.pdf",
                                "OUTPUTFILE = b.pdf", "outputfile = b.pdf",
                                "OUTPUT = b.pdf", "output = b.pdf"}>>,
      <<"ENERGY-UNITS = eV", {"energy-units = eV", "Energy-Units = eV",
                              "ENERGY UNITS = eV", "energy units = eV",
                              "ENERGYUNITS = eV", "energyunits = eV"}>>,
      <<"FONT-SIZE = 11", {"font-size = 11", "Font-Size = 11",
                           "FONT SIZE = 11", "font size = 11",
                           "FONTSIZE = 11", "fontsize = 11"}>> }

\* C16: every spelling of a global key that differs from the canonical one
\* only in letter case or in a space, a hyphen or nothing between its words
\* sets the same setting as the canonical spelling.
C16_KeySpellings ==
    (pc = "read" /\ ~stateBlock) =>
        \A ks \in KeySpellings : \A line \in ks[2] :
            ReadLineStep(Locals, line) = ReadLineStep(Locals, ks[1])

\* the loop of ReadInput over the lines from the i-th on and the end of the
\* input, started with plt.rcParams["font.size"] = rc: the Diagram returned
\* (None if an exception was raised), the exception, and the font size
\* plt.rcParams holds afterwards, with which the text of the Diagram is drawn
RECURSIVE ReadLines(_, _, _, _)
ReadLines(L, lines, i, rc) ==
    IF i > Len(lines)
    THEN [d |-> FinishInput(L).d, exc |-> FinishInput(L).exc, font |-> rc]
    ELSE LET r == ReadLineStep(L, lines[i])
             rc2 == IF r.font # None THEN r.font ELSE rc
         IN  IF r.exc # NoExc THEN [d |-> None, exc |-> r.exc, font |-> rc2]
             ELSE ReadLines(r.loc, lines, i + 1, rc2)

\* ReadInput(filename) on a file of these lines
ReadInput(lines, rc) == ReadLines(InitLocals, lines, 1, rc)

\* texts parsed after another parse in the same process
LaterTexts == {ChainFile, LinkFile, ScaleFile, <<"width = 8">>}

\* C17: a parse leaves nothing behind that changes a later parse: after
\* ReadInput has finished on any text, ReadInput on a text gives what it
\* gives in a fresh process: the same states in the same order with the
\* same attribute values, and the same global settings.
C17_ParseLeavesNothing ==
    ReadInputFinished =>
        \A text \in LaterTexts :
            ReadInput(text, rcFontSize) = ReadInput(text, None)

\* the extent the claim gives for the image of state under the limits of
\* view: left, right, bottom, and the height of the image in data space
ClaimedExtent(state, view) ==
    LET W == RInt(state.image[1].shape[2])
        H == RInt(state.image[1].shape[1])
        x_range == RInt(view.xlim[2] - view.xlim[1])
        y_range == RInt(view.ylim[2] - view.ylim[1])
        data_width == RInt(state.rightPointx - state.leftPointx)
        data_height == RMul(RDiv(RDiv(data_width, x_range), RDiv(W, H)), y_range)
    IN  << RInt(state.leftPointx), RInt(state.rightPointx),
           RInt(state.leftPointy), RAdd(RInt(state.leftPointy), data_height) >>

\* the states of d that carry an image
WithImage(d) ==
    SelectSeq(d.statesList, LAMBDA state : state.image # None)

\* C18: for a state with an image of W x H pixels, imageScale 1 and
\* imageOffset (0,0), the extent Draw passes to the canvas has left =
\* leftPoint.x, right = rightPoint.x, bottom = leftPoint.y and a height
\* ((right - left) / (x1 - x0)) / (W / H) * (y1 - y0) under the visible
\* ranges [x0,x1] and [y0,y1].
C18_ImageExtent ==
    (pc = "draw" /\ inp.lines = ImageFile) =>
        \A view \in Views :
            LET drawn == Draw(diagram[1], ax, view).ax.images
                states == WithImage(diagram[1])
            IN  /\ Len(drawn) = Len(states)
                /\ \A i \in 1..Len(states) :
                      (states[i].imageScale = Unit
                         /\ states[i].imageOffset = <<0, 0>>)
                      => drawn[i].extent = ClaimedExtent(states[i], view)

\* the column indices of the states of d, in their order
ColumnsOf(d) == [i \in 1..Len(d.statesList) |-> d.statesList[i].column]

\* C19: in every Diagram ReadInput returns, the column of every state is a
\* non-negative integer, whatever COLUMN lines its block holds.
C19_ColumnNonNegative ==
    (Returned /\ inp # NoInput) =>
        \A i \in 1..Len(diagram[1].statesList) : ColumnsOf(diagram[1])[i] >= 0

\* C20: in every Diagram ReadInput returns with at least one state,
\* columns is 1 plus the largest column index of its states.
C20_ColumnsCount ==
    (Returned /\ inp # NoInput /\ Len(diagram[1].statesList) >= 1) =>
        LET cols == ColumnsOf(diagram[1])
        IN  \E i \in 1..Len(cols) :
               /\ \A j \in 1..Len(cols) : cols[j] <= cols[i]
               /\ diagram[1].columns = 1 + cols[i]

\* colours as an input may write them
WrittenColours == {"red", "Red", "k", "tab:Blue", "#FF00aa"}

\* the colours of the lines of a canvas drawn in the line style ls
ColoursOf(lines, ls) ==
    LET drawn == SelectSeq(lines, LAMBDA l : l.ls = ls)
    IN  [k \in 1..Len(drawn) |-> drawn[k].c]

\* C21: colours reach the canvas as they are written in the input: the
\* colour of a state's segment, of its label and of each link token is
\* passed to the drawing call character for character, and a link token
\* without a colour is drawn in BLACK.  The links "B:red, nosuch ,c" of a
\* and "a" of b are drawn in red, BLACK and BLACK.
C21_ColoursVerbatim ==
    /\ (pc = "read" /\ stateBlock) =>
          \A c \in WrittenColours :
              /\ ReadLineStep(Locals, "textcolour = " \o c).loc
                    = SetLast(Locals, "color", c)
              /\ ReadLineStep(Locals, "LabelColor = " \o c).loc
                    = SetLast(Locals, "labelColor", c)
    /\ pc = "done" =>
          ColoursOf(ax.lines, "-") = [i \in 1..Len(diagram[1].statesList) |->
                                         diagram[1].statesList[i].color]
    /\ (pc = "done" /\ inp.lines = LinkFile) =>
          ColoursOf(ax.lines, "--") = <<"red", "BLACK", "BLACK">>

\* blank lines and comments
SkippedLines == {"", "   ", "#", "# a comment", "  # width = 9", "#{", "#}",
                 "# name = x", "#energy = 7"}

\* lines that begin with a closing brace
ClosingLines == {"}", "  }  ", "} # end", "}}", "} = 1"}

BraceWarning == "WARNING: Not expecting closing }"

\* lines with a blank line or a comment before each line and at the end
RECURSIVE Padded(_, _)
Padded(lines, k) ==
    LET pad == <<"", "# pad", "   #}">>[(k % 3) + 1]
    IN  IF lines = <<>> THEN <<pad>>
        ELSE <<pad, Head(lines)>> \o Padded(Tail(lines), k + 1)

\* C22: a blank line or a line whose first non-space character is "#"
\* changes nothing, inside a block and outside: the mode, the states and
\* the global settings are after the line what they were before it, so a
\* file with such lines inserted gives the Diagram of the file without
\* them; a line that begins with "}" outside a block prints a warning and
\* changes nothing either.
C22_SkippedLines ==
    /\ pc = "read" =>
          \A text \in SkippedLines : ReadLineStep(Locals, text) = Ok(Locals)
    /\ (pc = "read" /\ ~stateBlock) =>
          \A text \in ClosingLines :
              ReadLineStep(Locals, text) = Warn(Locals, BraceWarning)
    /\ (pc = "layout" /\ inp.vocab = {}) =>
          /\ ReadInput(Padded(inp.lines, 0), None).d = diagram
          /\ inp.lines = CommentedFile => ReadInput(PlainFile, None).d = diagram

\* the file with blank lines, comments and stray closing braces has been
\* read to its end and has given the Diagram of its one state
C22_Witness ==
    /\ pc = "layout"
    /\ inp.lines = CommentedFile
    /\ inp.pos = Len(CommentedFile)
    /\ Len(diagram[1].statesList) = 1
    /\ diagram[1].statesList[1].name = "A"
    /\ diagram[1].statesList[1].color = "b"
    /\ Energy(diagram[1].statesList[1]) = Unit
    /\ diagram[1].outputName = "test.pdf"

\* the Diagram apart from the end points of its states
WithoutPoints(d) ==
    [d EXCEPT !.statesList =
        [i \in 1..Len(d.statesList) |->
            [d.statesList[i] EXCEPT !.leftPointx = 0, !.leftPointy = 0,
                                    !.rightPointx = 0, !.rightPointy = 0]]]

\* a step taken after ReadInput has returned changes the Diagram in the
\* end points at most, and a step of Draw not at all
PointsOnly ==
    pc \in {"layout", "draw"} =>
        /\ diagram' # None
        /\ WithoutPoints(diagram'[1]) = WithoutPoints(diagram[1])
        /\ pc = "draw" => diagram' = diagram

\* C23: once ReadInput has returned, the Diagram changes only in the end
\* points of its states: MakeLeftRightPoints leaves every other field of
\* every state, the states and their order and every setting of the
\* Diagram as they are, a second call gives the points of the first, and
\* Draw changes nothing of the Diagram.
C23_OnlyPointsChange ==
    /\ [](diagram # None =>
            LET once == MakeLeftRightPoints(diagram[1])
            IN  /\ WithoutPoints(once) = WithoutPoints(diagram[1])
                /\ MakeLeftRightPoints(once) = once)
    /\ [][PointsOnly]_vars

\* the links file has been laid out and drawn: its states have their
\* points, and everything else is as ReadInput returned it
C23_Witness ==
    /\ pc = "done"
    /\ inp.lines = LinkFile
    /\ Points(diagram[1])[3] = <<150, 150, 250, 150>>
    /\ diagram[1] # ReadInput(LinkFile, None).d[1]
    /\ WithoutPoints(diagram[1]) = ReadInput(LinkFile, None).d[1]
    /\ Len(ax.lines) = 6

\* C24: an AddState that fails with the duplicate-name error leaves the
\* Diagram as it was before the call: the states, the column count and the
\* legend flag, also when the rejected state carries a legend and no
\* registered state does.
C24_RejectedAddState ==
    diagram # None =>
        \A state \in ApiStates :
            AddState(diagram[1], state).exc = DuplicateName
            => AddState(diagram[1], state).d = diagram[1]
====
